---- MODULE Spec2Model ----
(***************************************************************************)
(* The incremental scrobble sync of scrobble_vault: sync_scrobble_vault    *)
(* (services/sync_scrobbles.py), the Last.fm client (services/last_fm.py), *)
(* the three resolvers (services/sync_new_*.py) and the storage layer      *)
(* (db.py, db/artist.py, db/album.py, db/track.py, db/scrobble.py).        *)
(*                                                                         *)
(* Names are sequences of one-character strings, so that normalize         *)
(* (strip + lower) is computed and not assumed.                            *)
(***************************************************************************)
EXTENDS Integers, Sequences, FiniteSets, TLC

VARIABLES
    feed,        \* upstream listening history, oldest first (the environment)
    clock,       \* wall clock in seconds, read by int(time.time())
    ckpt,        \* sync_lastfm row 'last_sync_time': NoRow or its value
    artists,     \* table artists, row i has id i
    albums,      \* table albums
    tracks,      \* table tracks
    scrobbles,   \* table scrobbles
    pc,          \* per task: position inside sync_scrobble_vault
    outcome,     \* per task: how its last cycle ended, while the task is idle
                 \* and the feed is as that cycle left it (observation)
    loc,         \* per task: local variables of the running cycle
    hist,        \* per task: what the running cycle has done so far (observation)
    faults,      \* number of failures and crashes injected so far
    gate,        \* the rate-limit gate of _rate_limited_get and its callers
    surplus,     \* pages the feed's totalPages reports beyond those it has
    sched        \* main.py: "startup" (the startup run, no cron job yet),
                 \* "cron" (crontab registered), "exited" (main has returned)

vars == <<feed, clock, ckpt, artists, albums, tracks, scrobbles,
          pc, outcome, loc, hist, faults, gate, surplus, sched>>

-----------------------------------------------------------------------------
(* Bounds of the model *)

\* seconds of wall-clock time the model covers
MaxTime == 2
\* cycles that end in a failure or a crash, and responses that are not a
\* well-formed 200, in one behaviour
MaxFaults == 1
\* milliseconds of monotonic time the gate is observed for
MaxMono == 600
\* milliseconds the monotonic clock advances in one step
Quantum == 100
\* calls of _rate_limited_get in one behaviour
MaxRequests == 4
\* items per page the feed serves (the code asks for limit=200)
PageSize == 1
\* listens in the history a single fetch is run against
MaxItems == 3
\* pages the feed may report beyond those it has
MaxSurplus == 2

-----------------------------------------------------------------------------
(* Values *)

None == "None"
\* env.RATE_LIMIT_MS, its default
RATE_LIMIT_MS == 200
\* get_last_synced_scrobble finds no row
NoRow == -1
\* an item without a date field
NoDate == -1
\* a NULL foreign key
NULL == 0

Procs == {1, 2}

\* str.lower() on the model's alphabet
Lower(c) ==
    CASE c = "A" -> "a"
      [] c = "B" -> "b"
      [] c = "T" -> "t"
      [] c = "U" -> "u"
      [] c = "L" -> "l"
      [] c = "C" -> "c"
      [] c = "V" -> "v"
      [] OTHER -> c

RECURSIVE LStrip(_)
LStrip(s) ==
    IF s = <<>> THEN s
    ELSE IF Head(s) = " " THEN LStrip(Tail(s)) ELSE s

RECURSIVE RStrip(_)
RStrip(s) ==
    IF s = <<>> THEN s
    ELSE IF s[Len(s)] = " " THEN RStrip(SubSeq(s, 1, Len(s) - 1)) ELSE s

\* text.strip().lower()
normalize(text) ==
    LET t == RStrip(LStrip(text))
    IN  [i \in 1..Len(t) |-> Lower(t[i])]

\* x or None, for a string x
OrNone(x) == IF x = "" THEN None ELSE x

-----------------------------------------------------------------------------
(* The upstream feed: the items user.getRecentTracks can deliver.           *)
(* at: the second the listen happened (the feed's own ordering and window   *)
(* filter use it); uts: what the item's date.uts carries (NoDate: the item  *)
(* has no date field).                                                      *)

Shape(artist, amb, name, mbid, album, almb, np, date) ==
    [artist |-> artist, amb |-> amb, name |-> name, mbid |-> mbid,
     album |-> album, almb |-> almb, np |-> np, date |-> date]

\* a listen of track T by artist A on album L, no mbids
ShapePlain == Shape(<<"A">>, "", <<"T">>, "", <<"L">>, "", FALSE, "ok")
\* the same artist and track written differently, carrying mbids, no album
ShapeVariant == Shape(<<" ", "a">>, "m1", <<"t", " ">>, "m2", <<>>, "", FALSE, "ok")
\* a listen of a track Last.fm has no metadata for
ShapeUnknown == Shape(<<"B">>, "", <<"U">>, "", <<>>, "", FALSE, "ok")
\* an item without an artist name
ShapeNoArtist == Shape(<<>>, "", <<"T">>, "", <<>>, "", FALSE, "ok")

\* an item without a date field
ShapeNoDate == Shape(<<"B">>, "", <<"U">>, "", <<>>, "", FALSE, "missing")

\* the track playing now: the item carries '@attr' (nowplaying)
ShapeNowPlaying == Shape(<<"C">>, "", <<"V">>, "", <<>>, "", TRUE, "ok")

\* an item whose artist name is a blank: not empty, empty once normalized
ShapeBlank == Shape(<<" ">>, "", <<"T">>, "", <<>>, "", FALSE, "ok")

Shapes ==
    {ShapePlain, ShapeVariant, ShapeUnknown, ShapeNoArtist, ShapeNoDate,
     ShapeNowPlaying, ShapeBlank}

Item(sh, t) ==
    [artist |-> sh.artist, amb |-> sh.amb, name |-> sh.name, mbid |-> sh.mbid,
     album |-> sh.album, almb |-> sh.almb, np |-> sh.np,
     at |-> t,
     uts |-> IF sh.date = "ok" THEN t ELSE IF sh.date = "zero" THEN 0 ELSE NoDate]

FeedMax == IF feed = <<>> THEN 0 ELSE feed[Len(feed)].at

RECURSIVE SelectSeq2(_, _, _)
\* the items of s with lo <= at <= hi, order kept
SelectSeq2(s, lo, hi) ==
    IF s = <<>> THEN <<>>
    ELSE IF lo <= Head(s).at /\ Head(s).at <= hi
         THEN <<Head(s)>> \o SelectSeq2(Tail(s), lo, hi)
         ELSE SelectSeq2(Tail(s), lo, hi)

Reverse(s) == [i \in 1..Len(s) |-> s[Len(s) + 1 - i]]

\* user.getRecentTracks(from, to): the window's items, newest first
Window(from, to) == Reverse(SelectSeq2(feed, from, to))

Min(a, b) == IF a < b THEN a ELSE b

\* the number of pages n items fill
TotalPages(n) == IF n = 0 THEN 1 ELSE (n + PageSize - 1) \div PageSize

\* the envelope's totalPages for the window w
ReportedTotal(w) == TotalPages(Len(w)) + surplus

\* the 'track' list of page k
PageOf(w, k) == SubSeq(w, (k - 1) * PageSize + 1, Min(k * PageSize, Len(w)))

-----------------------------------------------------------------------------
(* Last.fm's metadata, as artist.getInfo / album.getInfo / track.getInfo    *)
(* answer a well-formed request: artist A (mbid m1), its album L and its    *)
(* track T (mbid m2) are known, everything else is not.  The requests carry *)
(* autocorrect=1: the artist name B is one Last.fm corrects to A, and the   *)
(* track name U, for artist A, one it corrects to T.                        *)

Info(name, mbid, artist, albumTitle, albumArtist) ==
    [ok |-> TRUE, name |-> name, mbid |-> mbid, artist |-> artist,
     albumTitle |-> albumTitle, albumArtist |-> albumArtist]

\* the empty dict {}
Empty ==
    [ok |-> FALSE, name |-> <<>>, mbid |-> "", artist |-> <<>>,
     albumTitle |-> <<>>, albumArtist |-> <<>>]

ArtistAnswer(artist, mbid) ==
    IF \/ mbid # None /\ mbid = "m1"
       \/ mbid = None /\ normalize(artist) \in {<<"a">>, <<"b">>}
    THEN Info(<<"A">>, "m1", <<>>, <<>>, <<>>)
    ELSE Empty

AlbumAnswer(artist, album, mbid) ==
    IF mbid = None /\ normalize(artist) = <<"a">> /\ normalize(album) = <<"l">>
    THEN Info(<<"L">>, "", <<"A">>, <<>>, <<>>)
    ELSE Empty

TrackAnswer(artist, track, mbid) ==
    IF (mbid # None /\ mbid = "m2")
       \/ (mbid = None /\ normalize(artist) = <<"a">>
             /\ normalize(track) \in {<<"t">>, <<"u">>})
    THEN Info(<<"T">>, "m2", <<"A">>, <<"L">>, <<"A">>)
    ELSE Empty

\* a client that sends its request whatever it was given
SendableAlways(kind, artist, name, mbid) == TRUE

\* fetch_*_info sends no request when it has neither an mbid nor the names
Sendable(kind, artist, name, mbid) ==
    \/ mbid # None
    \/ IF kind = "artist" THEN artist # <<>> ELSE artist # <<>> /\ name # <<>>

\* the 'artist' / 'album' / 'track' object of a 200 response
Answer(kind, artist, name, mbid) ==
    CASE kind = "artist" -> ArtistAnswer(artist, mbid)
      [] kind = "album"  -> AlbumAnswer(artist, name, mbid)
      [] kind = "track"  -> TrackAnswer(artist, name, mbid)

-----------------------------------------------------------------------------
(* Storage: SELECTs and INSERT ... ON CONFLICT DO NOTHING                    *)

FindArtist(tbl, anorm) ==
    IF \E i \in 1..Len(tbl) : tbl[i].norm = anorm
    THEN CHOOSE i \in 1..Len(tbl) : tbl[i].norm = anorm
    ELSE NULL

\* albums and tracks: the row with this (artist_name_norm, *_name_norm)
FindPair(tbl, anorm, norm) ==
    IF \E i \in 1..Len(tbl) : tbl[i].anorm = anorm /\ tbl[i].norm = norm
    THEN CHOOSE i \in 1..Len(tbl) : tbl[i].anorm = anorm /\ tbl[i].norm = norm
    ELSE NULL

artist_exists(artist_name) == FindArtist(artists, normalize(artist_name)) # NULL

album_exists(artist_name, album_name) ==
    FindPair(albums, normalize(artist_name), normalize(album_name)) # NULL

track_exists(artist_name, track_name) ==
    FindPair(tracks, normalize(artist_name), normalize(track_name)) # NULL

\* an insert without the conflict clause and without the unique index
insert_artist_always(info) ==
    Append(artists, [norm |-> normalize(info.name), name |-> info.name,
                     mbid |-> OrNone(info.mbid)])

\* the artists table after insert_artist(info)
insert_artist(info) ==
    IF FindArtist(artists, normalize(info.name)) # NULL
    THEN artists
    ELSE Append(artists, [norm |-> normalize(info.name), name |-> info.name,
                          mbid |-> OrNone(info.mbid)])

\* an insert that leaves the album out while its artist is not stored
insert_album_strict(info) ==
    IF \/ FindPair(albums, normalize(info.artist), normalize(info.name)) # NULL
       \/ FindArtist(artists, normalize(info.artist)) = NULL
    THEN albums
    ELSE Append(albums, [anorm |-> normalize(info.artist),
                         norm |-> normalize(info.name),
                         artist_id |-> FindArtist(artists, normalize(info.artist)),
                         name |-> info.name, mbid |-> OrNone(info.mbid)])

\* the albums table after insert_album(info)
insert_album(info) ==
    LET artist_name == info.artist
        artist_id == FindArtist(artists, normalize(artist_name))
    IN  IF FindPair(albums, normalize(artist_name), normalize(info.name)) # NULL
        THEN albums
        ELSE Append(albums, [anorm |-> normalize(artist_name),
                             norm |-> normalize(info.name),
                             artist_id |-> artist_id,
                             name |-> info.name, mbid |-> OrNone(info.mbid)])

\* the tracks table after insert_track(info)
insert_track(info) ==
    LET artist_id == FindArtist(artists, normalize(info.artist))
        album_artist_name ==
            IF info.albumArtist # <<>> THEN info.albumArtist ELSE info.artist
        album_id ==
            IF info.albumTitle # <<>>
            THEN FindPair(albums, normalize(album_artist_name), normalize(info.albumTitle))
            ELSE NULL
    IN  IF FindPair(tracks, normalize(info.artist), normalize(info.name)) # NULL
        THEN tracks
        ELSE Append(tracks, [anorm |-> normalize(info.artist),
                             norm |-> normalize(info.name),
                             artist_id |-> artist_id, album_id |-> album_id,
                             name |-> info.name, mbid |-> OrNone(info.mbid)])

\* int(scrobble.get('date', {}).get('uts', 0))
ListenedAt(s) == IF s.uts = NoDate THEN 0 ELSE s.uts

\* insert_scrobble skips the item
Skipped(s) == s.artist = <<>> \/ s.name = <<>> \/ ListenedAt(s) = 0

\* ON CONFLICT (track_id, listened_at): a NULL track_id conflicts with nothing
ScrobbleConflict(tbl, track_id, listened_at) ==
    /\ track_id # NULL
    /\ \E i \in 1..Len(tbl) :
          tbl[i].track_id = track_id /\ tbl[i].listened_at = listened_at

\* the scrobbles table after insert_scrobble(s)
insert_scrobble(s) ==
    LET track_id == FindPair(tracks, normalize(s.artist), normalize(s.name))
    IN  IF Skipped(s) \/ ScrobbleConflict(scrobbles, track_id, ListenedAt(s))
        THEN scrobbles
        ELSE Append(scrobbles, [track_id |-> track_id,
                                listened_at |-> ListenedAt(s),
                                artist_name |-> s.artist,
                                track_name |-> s.name,
                                album_name |-> s.album])

-----------------------------------------------------------------------------
(* The resolvers' extraction step: one entry per key, in first-seen order,  *)
(* as the Python dicts unique_artists / unique_albums / unique_tracks keep. *)

Ref(valid, key, name, mbid) ==
    [valid |-> valid, key |-> key, name |-> name, mbid |-> mbid]

\* a resolver that keys artists by the name as written, not by normalize
RefArtistRaw(s) ==
    Ref(s.artist # <<>>, <<s.artist>>, s.artist, OrNone(s.amb))

\* sync_new_artists: the reference a scrobble makes to its artist
RefArtist(s) ==
    Ref(s.artist # <<>>, <<normalize(s.artist)>>, s.artist, OrNone(s.amb))

\* sync_new_albums: the reference a scrobble makes to its album
RefAlbum(s) ==
    Ref(s.artist # <<>> /\ s.album # <<>>,
        <<normalize(s.artist), normalize(s.album)>>, <<>>, OrNone(s.almb))

\* sync_new_tracks: the reference a scrobble makes to its track
RefTrack(s) ==
    Ref(s.artist # <<>> /\ s.name # <<>>,
        <<normalize(s.artist), normalize(s.name)>>, <<>>, OrNone(s.mbid))

RefOf(kind, s) ==
    CASE kind = "artist" -> RefArtist(s)
      [] kind = "album"  -> RefAlbum(s)
      [] kind = "track"  -> RefTrack(s)

HasKey(acc, key) == \E i \in 1..Len(acc) : acc[i].key = key

\* a dict that keeps the first reference of a key as it came
FoldFirst(acc, r) ==
    IF ~r.valid \/ HasKey(acc, r.key) THEN acc
    ELSE Append(acc, [key |-> r.key, name |-> r.name, mbid |-> r.mbid])

\* if key not in d: d[key] = ...  elif d[key] has no mbid and this one has: set it
Fold(acc, r) ==
    IF ~r.valid THEN acc
    ELSE IF ~HasKey(acc, r.key)
         THEN Append(acc, [key |-> r.key, name |-> r.name, mbid |-> r.mbid])
         ELSE [i \in 1..Len(acc) |->
                  IF acc[i].key = r.key /\ acc[i].mbid = None /\ r.mbid # None
                  THEN [acc[i] EXCEPT !.mbid = r.mbid]
                  ELSE acc[i]]

RECURSIVE ExtractFrom(_, _, _)
ExtractFrom(kind, batch, acc) ==
    IF batch = <<>> THEN acc
    ELSE ExtractFrom(kind, Tail(batch), Fold(acc, RefOf(kind, Head(batch))))

\* the dict of unique references of a batch
Extract(kind, batch) == ExtractFrom(kind, batch, <<>>)

\* artist_exists / album_exists / track_exists as the resolver calls it
Exists(kind, e) ==
    CASE kind = "artist" -> artist_exists(e.name)
      [] kind = "album"  -> album_exists(e.key[1], e.key[2])
      [] kind = "track"  -> track_exists(e.key[1], e.key[2])

\* the artist name the resolver passes to fetch_*_info
LookupArtist(kind, e) == IF kind = "artist" THEN e.name ELSE e.key[1]
\* the album / track name the resolver passes to fetch_*_info
LookupName(kind, e) == IF kind = "artist" THEN <<>> ELSE e.key[2]

\* sync_scrobble_vault: what follows the resolver of a kind
\* an orchestrator that resolves tracks before albums
AfterResolverSwapped(kind) ==
    CASE kind = "artist" -> "track"
      [] kind = "track"  -> "album"
      [] kind = "album"  -> "store"

AfterResolver(kind) ==
    CASE kind = "artist" -> "album"
      [] kind = "album"  -> "track"
      [] kind = "track"  -> "store"

\* a fetch that keeps every item of a page
CompletedAll(ts) == ts

\* [track for track in tracks if '@attr' not in track]
RECURSIVE Completed(_)
Completed(ts) ==
    IF ts = <<>> THEN <<>>
    ELSE IF Head(ts).np THEN Completed(Tail(ts))
         ELSE <<Head(ts)>> \o Completed(Tail(ts))

\* the timestamp of the last scrobble in iteration order
LastUts(b) == b[Len(b)].uts

RECURSIVE MaxUts(_)
\* max(int(s['date']['uts']) for s in scrobbles), for a non-empty list with dates
MaxUts(b) ==
    IF Len(b) = 1 THEN b[1].uts
    ELSE LET m == MaxUts(Tail(b)) IN IF b[1].uts > m THEN b[1].uts ELSE m

\* s['date'] raises KeyError for some scrobble
MissingDate(b) == \E i \in 1..Len(b) : b[i].uts = NoDate

\* a window that starts at the checkpoint itself
StartingTimeInclusive(row) == IF row = NoRow THEN 0 ELSE row

\* starting_time as sync_scrobble_vault computes it from the row it read
StartingTime(row) == IF row = NoRow THEN 0 ELSE row + 1

-----------------------------------------------------------------------------
(* State of a task running sync_scrobble_vault *)

LocInit ==
    [kind |-> "none", starting_time |-> 0, now |-> 0, page |-> 0,
     all_tracks |-> <<>>, unique |-> <<>>, new |-> <<>>, idx |-> 0,
     info |-> Empty]

\* an operation of a cycle: a page request, an existence check, a metadata
\* lookup, an insert, a checkpoint write
Op(op, kind) == [op |-> op, kind |-> kind]

\* what the running cycle has done so far, and (resolved) the references
\* for which a cycle of the task, this or an earlier one, fetched metadata
\* and inserted a row
HistInit ==
    [prev |-> "none", ckpt0 |-> NoRow, abnormal |-> FALSE,
     pages |-> 0, lookups |-> <<>>, by |-> <<>>, rows |-> 0, stored |-> 0,
     writes |-> 0,
     returned |-> {}, last |-> Op("none", "none"), resolved |-> {}]

\* the observation of task p between two cycles
HistIdle(p) == [HistInit EXCEPT !.resolved = hist[p].resolved]

\* the tasks that may call _rate_limited_get at the same time
Callers == {1, 2, 3}

\* _rate_limit_lock (holder, waiters in arrival order), _last_request_time
\* (last), time.monotonic() in ms (mono), each caller's position (st) and the
\* end of its sleep (wake), the start times of the requests so far (starts),
\* and as observation the callers in the order they called (arrived) and in
\* the order their requests went out (issued), and which of the requests,
\* numbered as in starts, raised (failed)
GateInit ==
    [holder |-> 0, waiters |-> <<>>, last |-> 0, mono |-> 0,
     st |-> [c \in Callers |-> "out"], wake |-> [c \in Callers |-> 0],
     calls |-> 0, starts |-> <<>>, arrived |-> <<>>, issued |-> <<>>,
     failed |-> {}]

Init ==
    /\ feed = <<>>
    /\ clock = 1
    /\ ckpt = NoRow
    /\ artists = <<>>
    /\ albums = <<>>
    /\ tracks = <<>>
    /\ scrobbles = <<>>
    /\ pc = [p \in Procs |-> "idle"]
    /\ outcome = [p \in Procs |-> "none"]
    /\ loc = [p \in Procs |-> LocInit]
    /\ hist = [p \in Procs |-> HistInit]
    /\ faults = 0
    /\ gate = GateInit
    /\ surplus = 0
    /\ sched = "startup"

Idle == \A p \in Procs : pc[p] = "idle"

db == <<ckpt, artists, albums, tracks, scrobbles>>
tables == <<artists, albums, tracks, scrobbles>>
\* what no step of a cycle changes
env == <<feed, clock, surplus, sched>>

-----------------------------------------------------------------------------
(* The environment *)

\* a second passes between cycles (a cycle reads the clock once)
Tick ==
    /\ Idle
    /\ clock < MaxTime
    /\ clock' = clock + 1
    /\ UNCHANGED <<feed, surplus, sched, db, pc, outcome, loc, hist, faults, gate>>

\* the user finishes a listen: it is appended to the history with the
\* current second as its timestamp, one listen per second at most
Scrobble ==
    /\ Idle
    /\ FeedMax < clock
    /\ \E sh \in Shapes : feed' = Append(feed, Item(sh, clock))
    /\ outcome' = [p \in Procs |-> "none"]
    /\ UNCHANGED <<clock, surplus, sched, db, pc, loc, hist, faults, gate>>

-----------------------------------------------------------------------------
(* sync_scrobble_vault, step by step *)

\* how a cycle ended: "done" (returned, every response well-formed),
\* "done_abnormal" (returned after a response that was not), "failed" (raised),
\* "crashed" (killed), "crashed_after_store" (killed between the last
\* insert_scrobble and update_last_synced_scrobble)
Ended(p, how) ==
    IF how = "crashed" /\ pc[p] = "checkpoint" /\ ~hist[p].abnormal
    THEN "crashed_after_store"
    ELSE IF how = "done" /\ hist[p].abnormal THEN "done_abnormal"
    ELSE how

\* the cycle ends: the task returns, raises or is killed
End(p, how) ==
    /\ pc' = [pc EXCEPT ![p] = "idle"]
    /\ outcome' = [outcome EXCEPT ![p] = Ended(p, how)]
    /\ loc' = [loc EXCEPT ![p] = LocInit]
    /\ hist' = [hist EXCEPT ![p] = HistIdle(p)]

\* the scheduler invokes sync_scrobble_vault
StartCycle(p) ==
    /\ pc[p] = "idle"
    /\ pc' = [pc EXCEPT ![p] = "init"]
    /\ loc' = [loc EXCEPT ![p] = LocInit]
    /\ hist' = [hist EXCEPT ![p] =
          [HistIdle(p) EXCEPT !.prev = outcome[p], !.ckpt0 = ckpt]]
    /\ outcome' = [outcome EXCEPT ![p] = "none"]
    /\ UNCHANGED <<env, db, faults, gate>>

\* an init_sync_table that writes the initial value over an existing row
InitSchemaReset(p) ==
    /\ pc[p] = "init"
    /\ ckpt' = 0
    /\ pc' = [pc EXCEPT ![p] = "read"]
    /\ hist' = [hist EXCEPT ![p].last = Op("init", "ckpt")]
    /\ UNCHANGED <<env, tables, outcome, loc, faults, gate>>

\* init_sync_table: creates the row with value 0 unless there is one
InitSchema(p) ==
    /\ pc[p] = "init"
    /\ ckpt' = IF ckpt = NoRow THEN 0 ELSE ckpt
    /\ pc' = [pc EXCEPT ![p] = "read"]
    /\ hist' = [hist EXCEPT ![p].last = Op("init", "ckpt")]
    /\ UNCHANGED <<env, tables, outcome, loc, faults, gate>>

\* the other init_*_table calls, get_last_synced_scrobble, now, starting_time
ReadCheckpoint(p) ==
    /\ pc[p] = "read"
    /\ loc' = [loc EXCEPT ![p].starting_time = StartingTime(ckpt),
                          ![p].now = clock,
                          ![p].page = 1]
    /\ pc' = [pc EXCEPT ![p] = "fetch"]
    /\ hist' = [hist EXCEPT ![p].last = Op("read", "ckpt")]
    /\ UNCHANGED <<env, db, outcome, faults, gate>>

\* the local state on entering the resolver of a kind, or the insert loop
Enter(l, kind) ==
    IF kind = "store"
    THEN [l EXCEPT !.kind = "none", !.unique = <<>>, !.new = <<>>, !.idx = 1,
                   !.info = Empty]
    ELSE [l EXCEPT !.kind = kind, !.unique = Extract(kind, l.all_tracks),
                   !.new = <<>>, !.idx = 1, !.info = Empty]

PcOf(kind) == IF kind = "store" THEN "store" ELSE "check"

\* an orchestrator that runs the resolvers whatever the fetch returned
AfterFetchAlways(p, all_tracks) ==
    /\ pc' = [pc EXCEPT ![p] = PcOf("artist")]
    /\ loc' = [loc EXCEPT ![p] =
          Enter([loc[p] EXCEPT !.all_tracks = all_tracks], "artist")]

\* fetch_last_fm_data returns all_tracks; sync_scrobble_vault goes on with it
AfterFetch(p, all_tracks) ==
    IF all_tracks = <<>>
    THEN /\ pc' = [pc EXCEPT ![p] = "finish"]
         /\ loc' = [loc EXCEPT ![p].all_tracks = all_tracks]
    ELSE /\ pc' = [pc EXCEPT ![p] = PcOf("artist")]
         /\ loc' = [loc EXCEPT ![p] =
               Enter([loc[p] EXCEPT !.all_tracks = all_tracks], "artist")]

\* a page loop that goes by totalPages alone and never looks for an empty page
FetchPageToTotal(p) ==
    /\ pc[p] = "fetch"
    /\ LET l == loc[p]
           w == Window(l.starting_time, l.now)
           all_tracks == l.all_tracks \o Completed(PageOf(w, l.page))
       IN  IF l.page >= ReportedTotal(w)
           THEN AfterFetch(p, all_tracks)
           ELSE /\ pc' = pc
                /\ loc' = [loc EXCEPT ![p].all_tracks = all_tracks,
                                      ![p].page = l.page + 1]
    /\ hist' = [hist EXCEPT ![p].pages = @ + 1, ![p].last = Op("page", "ok")]
    /\ UNCHANGED <<env, db, outcome, faults, gate>>

\* one iteration of the page loop with a 200 response carrying recenttracks
FetchPage(p) ==
    /\ pc[p] = "fetch"
    /\ LET l == loc[p]
           w == Window(l.starting_time, l.now)
           page_tracks == PageOf(w, l.page)
           all_tracks == l.all_tracks \o Completed(page_tracks)
       IN  IF page_tracks = <<>>
           THEN AfterFetch(p, l.all_tracks)
           ELSE IF l.page >= ReportedTotal(w)
                THEN AfterFetch(p, all_tracks)
                ELSE /\ pc' = pc
                     /\ loc' = [loc EXCEPT ![p].all_tracks = all_tracks,
                                           ![p].page = l.page + 1]
    /\ hist' = [hist EXCEPT ![p].pages = @ + 1, ![p].last = Op("page", "ok")]
    /\ UNCHANGED <<env, db, outcome, faults, gate>>

\* a 200 response without 'recenttracks': the loop breaks
FetchPageNoRecent(p) ==
    /\ pc[p] = "fetch"
    /\ faults < MaxFaults
    /\ faults' = faults + 1
    /\ AfterFetch(p, loc[p].all_tracks)
    /\ hist' = [hist EXCEPT ![p].pages = @ + 1, ![p].abnormal = TRUE,
                            ![p].last = Op("page", "norecent")]
    /\ UNCHANGED <<env, db, outcome, gate>>

\* a fetch that stops paging on a status other than 200 and returns what
\* it has, as it does for a response without recenttracks
FetchPageErrorSwallowed(p) ==
    /\ pc[p] = "fetch"
    /\ faults < MaxFaults
    /\ faults' = faults + 1
    /\ AfterFetch(p, loc[p].all_tracks)
    /\ hist' = [hist EXCEPT ![p].pages = @ + 1, ![p].abnormal = TRUE,
                            ![p].last = Op("page", "error")]
    /\ UNCHANGED <<env, db, outcome, gate>>

\* a page request answered with a status other than 200: the exception
\* leaves fetch_last_fm_data and sync_scrobble_vault.  The observation keeps
\* the failed request and its page number until the next cycle starts.
FetchPageError(p) ==
    /\ pc[p] = "fetch"
    /\ faults < MaxFaults
    /\ faults' = faults + 1
    /\ pc' = [pc EXCEPT ![p] = "idle"]
    /\ outcome' = [outcome EXCEPT ![p] = "failed"]
    /\ loc' = [loc EXCEPT ![p] = LocInit]
    /\ hist' = [hist EXCEPT ![p] =
          [HistIdle(p) EXCEPT !.pages = hist[p].pages + 1,
                           !.last = Op("page", "error")]]
    /\ UNCHANGED <<env, db, gate>>

\* a resolver without the filter: every distinct key is new
CheckNoFilter(p) ==
    /\ pc[p] = "check"
    /\ loc[p].idx <= Len(loc[p].unique)
    /\ loc' = [loc EXCEPT ![p].idx = loc[p].idx + 1,
                          ![p].new = Append(loc[p].new, loc[p].unique[loc[p].idx])]
    /\ hist' = [hist EXCEPT ![p].last = Op("check", loc[p].kind)]
    /\ UNCHANGED <<env, db, pc, outcome, faults, gate>>

\* one iteration of the existence filter
Check(p) ==
    /\ pc[p] = "check"
    /\ loc[p].idx <= Len(loc[p].unique)
    /\ LET l == loc[p]
           e == l.unique[l.idx]
       IN  loc' = [loc EXCEPT ![p].idx = l.idx + 1,
                              ![p].new = IF Exists(l.kind, e) THEN l.new
                                         ELSE Append(l.new, e)]
    /\ hist' = [hist EXCEPT ![p].last = Op("check", loc[p].kind)]
    /\ UNCHANGED <<env, db, pc, outcome, faults, gate>>

\* the resolver returns; sync_scrobble_vault calls what follows it
Return(p) ==
    LET next == AfterResolver(loc[p].kind)
    IN  /\ pc' = [pc EXCEPT ![p] = PcOf(next)]
        /\ loc' = [loc EXCEPT ![p] = Enter(loc[p], next)]
        /\ hist' = [hist EXCEPT ![p].returned = @ \cup {loc[p].kind}]

\* the filter is through: return when nothing is new, else start the lookups
EndCheck(p) ==
    /\ pc[p] = "check"
    /\ loc[p].idx > Len(loc[p].unique)
    /\ IF loc[p].new = <<>>
       THEN Return(p)
       ELSE /\ pc' = [pc EXCEPT ![p] = "lookup"]
            /\ loc' = [loc EXCEPT ![p].idx = 1]
            /\ hist' = hist
    /\ UNCHANGED <<env, db, outcome, faults, gate>>

\* the key under which a lookup counts: the normalized reference it is for
LookupKey(kind, e) ==
    IF kind = "artist" THEN <<kind, normalize(e.name)>>
    ELSE <<kind, normalize(e.key[1]), normalize(e.key[2])>>

\* a resolver that gives up the cycle when a lookup returns nothing
AfterLookupAbort(p, info) ==
    IF info.ok
    THEN /\ pc' = [pc EXCEPT ![p] = "insert"]
         /\ loc' = [loc EXCEPT ![p].info = info]
    ELSE /\ pc' = [pc EXCEPT ![p] = "idle"]
         /\ loc' = [loc EXCEPT ![p] = LocInit]

\* the cycle goes on with the dict fetch_*_info returned
AfterLookup(p, info) ==
    IF info.ok
    THEN /\ pc' = [pc EXCEPT ![p] = "insert"]
         /\ loc' = [loc EXCEPT ![p].info = info]
    ELSE /\ pc' = pc
         /\ loc' = [loc EXCEPT ![p].idx = loc[p].idx + 1]

\* fetch_*_info for the next new key, answered with status 200
Lookup(p) ==
    /\ pc[p] = "lookup"
    /\ loc[p].idx <= Len(loc[p].new)
    /\ LET l == loc[p]
           e == l.new[l.idx]
           artist == LookupArtist(l.kind, e)
           name == LookupName(l.kind, e)
           sent == Sendable(l.kind, artist, name, e.mbid)
       IN  /\ AfterLookup(p, IF sent THEN Answer(l.kind, artist, name, e.mbid)
                                     ELSE Empty)
           /\ hist' = [hist EXCEPT
                 ![p].lookups = IF sent THEN Append(@, LookupKey(l.kind, e)) ELSE @,
                 ![p].by = IF sent THEN Append(@, e.mbid) ELSE @,
                 ![p].last = Op("lookup", l.kind)]
    /\ UNCHANGED <<env, db, outcome, faults, gate>>

\* fetch_*_info answered with another status, or aiohttp.ClientError: {}
LookupError(p) ==
    /\ pc[p] = "lookup"
    /\ loc[p].idx <= Len(loc[p].new)
    /\ faults < MaxFaults
    /\ faults' = faults + 1
    /\ LET l == loc[p]
           e == l.new[l.idx]
       IN  /\ Sendable(l.kind, LookupArtist(l.kind, e), LookupName(l.kind, e), e.mbid)
           /\ AfterLookup(p, Empty)
           /\ hist' = [hist EXCEPT
                 ![p].lookups = Append(@, LookupKey(l.kind, e)),
                 ![p].by = Append(@, e.mbid),
                 ![p].abnormal = TRUE,
                 ![p].last = Op("lookup_error", l.kind)]
    /\ UNCHANGED <<env, db, outcome, gate>>

\* insert_artist / insert_album / insert_track of the info just fetched
Insert(p) ==
    /\ pc[p] = "insert"
    /\ LET l == loc[p]
       IN  /\ artists' = IF l.kind = "artist" THEN insert_artist(l.info) ELSE artists
           /\ albums' = IF l.kind = "album" THEN insert_album(l.info) ELSE albums
           /\ tracks' = IF l.kind = "track" THEN insert_track(l.info) ELSE tracks
           /\ loc' = [loc EXCEPT ![p].idx = l.idx + 1, ![p].info = Empty]
           /\ hist' = [hist EXCEPT
                 ![p].rows = @ + (Len(artists') - Len(artists))
                               + (Len(albums') - Len(albums))
                               + (Len(tracks') - Len(tracks)),
                 ![p].resolved =
                     IF <<artists', albums', tracks'>> # <<artists, albums, tracks>>
                     THEN @ \cup {LookupKey(l.kind, l.new[l.idx])}
                     ELSE @,
                 ![p].last = Op("insert", l.kind)]
    /\ pc' = [pc EXCEPT ![p] = "lookup"]
    /\ UNCHANGED <<env, ckpt, scrobbles, outcome, faults, gate>>

\* the lookups are through: the resolver returns
EndLookup(p) ==
    /\ pc[p] = "lookup"
    /\ loc[p].idx > Len(loc[p].new)
    /\ Return(p)
    /\ UNCHANGED <<env, db, outcome, faults, gate>>

\* an insert loop that advances the checkpoint with every event it stores
StoreAndAdvance(p) ==
    /\ pc[p] = "store"
    /\ LET l == loc[p]
       IN  /\ scrobbles' = insert_scrobble(l.all_tracks[l.idx])
           /\ ckpt' = IF l.all_tracks[l.idx].uts = NoDate THEN ckpt
                      ELSE l.all_tracks[l.idx].uts
           /\ loc' = [loc EXCEPT ![p].idx = l.idx + 1]
           /\ pc' = [pc EXCEPT ![p] =
                 IF l.idx = Len(l.all_tracks) THEN "checkpoint" ELSE "store"]
           /\ hist' = [hist EXCEPT
                 ![p].rows = @ + (Len(scrobbles') - Len(scrobbles)),
                 ![p].stored = @ + 1,
                 ![p].last = Op("store", "event")]
    /\ UNCHANGED <<env, artists, albums, tracks, outcome, faults, gate>>

\* for scrobble in scrobbles: await insert_scrobble(scrobble)
Store(p) ==
    /\ pc[p] = "store"
    /\ LET l == loc[p]
       IN  /\ scrobbles' = insert_scrobble(l.all_tracks[l.idx])
           /\ loc' = [loc EXCEPT ![p].idx = l.idx + 1]
           /\ pc' = [pc EXCEPT ![p] =
                 IF l.idx = Len(l.all_tracks) THEN "checkpoint" ELSE "store"]
           /\ hist' = [hist EXCEPT
                 ![p].rows = @ + (Len(scrobbles') - Len(scrobbles)),
                 ![p].stored = @ + 1,
                 ![p].last = Op("store", "event")]
    /\ UNCHANGED <<env, ckpt, artists, albums, tracks, outcome, faults, gate>>

\* update_last_synced_scrobble: UPDATE ... WHERE key = 'last_sync_time'
update_last_synced_scrobble(timestamp) == IF ckpt = NoRow THEN NoRow ELSE timestamp

\* latest_scrobble_time = max(...); update_last_synced_scrobble(latest)
Checkpoint(p) ==
    /\ pc[p] = "checkpoint"
    /\ ~MissingDate(loc[p].all_tracks)
    /\ ckpt' = update_last_synced_scrobble(MaxUts(loc[p].all_tracks))
    /\ pc' = [pc EXCEPT ![p] = "finish"]
    /\ hist' = [hist EXCEPT ![p].writes = @ + 1, ![p].last = Op("write", "ckpt")]
    /\ UNCHANGED <<env, tables, outcome, loc, faults, gate>>

\* s['date'] raises KeyError: the exception leaves sync_scrobble_vault
CheckpointKeyError(p) ==
    /\ pc[p] = "checkpoint"
    /\ MissingDate(loc[p].all_tracks)
    /\ faults < MaxFaults
    /\ faults' = faults + 1
    /\ End(p, "failed")
    /\ UNCHANGED <<env, db, gate>>

\* sync_scrobble_vault logs and returns
Finish(p) ==
    /\ pc[p] = "finish"
    /\ End(p, "done")
    /\ UNCHANGED <<env, db, faults, gate>>

\* what the storage call at the position of task p works on
StorageCallOf(p) ==
    CASE pc[p] \in {"check", "insert"} -> loc[p].kind
      [] pc[p] = "store" -> "event"
      [] OTHER -> "ckpt"

\* a storage layer whose functions log the error and return
StorageErrorSwallowed(p) ==
    /\ pc[p] \in {"init", "read", "check", "insert", "store", "checkpoint"}
    /\ pc[p] = "check" => loc[p].idx <= Len(loc[p].unique)
    /\ faults < MaxFaults
    /\ faults' = faults + 1
    /\ hist' = [hist EXCEPT ![p].last = Op("storage_error", StorageCallOf(p))]
    /\ UNCHANGED <<env, db, gate, pc, loc, outcome>>

\* a storage call raises OSError or PostgresError before it has an effect:
\* the function logs and re-raises, the exception leaves the resolver (or the
\* insert loop) and sync_scrobble_vault.  The observation keeps the failed
\* call and the rows the cycle had inserted until the next cycle starts.
StorageError(p) ==
    /\ pc[p] \in {"init", "read", "check", "insert", "store", "checkpoint"}
    /\ pc[p] = "check" => loc[p].idx <= Len(loc[p].unique)
    /\ faults < MaxFaults
    /\ faults' = faults + 1
    /\ pc' = [pc EXCEPT ![p] = "idle"]
    /\ outcome' = [outcome EXCEPT ![p] = "failed"]
    /\ loc' = [loc EXCEPT ![p] = LocInit]
    /\ hist' = [hist EXCEPT ![p] =
          [HistIdle(p) EXCEPT !.rows = hist[p].rows,
                           !.returned = hist[p].returned,
                           !.last = Op("storage_error", StorageCallOf(p))]]
    /\ UNCHANGED <<env, db, gate>>

\* the process is terminated while the cycle runs
Crash(p) ==
    /\ pc[p] # "idle"
    /\ faults < MaxFaults
    /\ faults' = faults + 1
    /\ End(p, "crashed")
    /\ UNCHANGED <<env, db, gate>>

Step(p) ==
    \/ InitSchema(p)
    \/ ReadCheckpoint(p)
    \/ FetchPage(p)
    \/ FetchPageNoRecent(p)
    \/ FetchPageError(p)
    \/ Check(p)
    \/ EndCheck(p)
    \/ Lookup(p)
    \/ LookupError(p)
    \/ Insert(p)
    \/ EndLookup(p)
    \/ Store(p)
    \/ Checkpoint(p)
    \/ CheckpointKeyError(p)
    \/ Finish(p)
    \/ StorageError(p)
    \/ Crash(p)

\* cycles one after the other: the scheduler starts a cycle when none runs
Next ==
    \/ Tick
    \/ Scrobble
    \/ Idle /\ StartCycle(1)
    \/ Step(1)

Spec == Init /\ [][Next]_vars

-----------------------------------------------------------------------------
(* _rate_limited_get: the gate every Last.fm request passes.  The cycle's   *)
(* page requests and lookups above are its callers; the gate only delays    *)
(* them, so its timing is modelled here, for any callers, on its own.       *)

\* wait_ms = env.RATE_LIMIT_MS - elapsed_ms
WaitMs(now, last) == RATE_LIMIT_MS - (now - last)

\* a gate that lets go of the lock once the request is on its way
SendAndRelease(g, c) ==
    [g EXCEPT !.last = g.mono, !.holder = 0, !.st[c] = "inflight",
              !.wake[c] = 0,
              !.starts = Append(@, g.mono), !.issued = Append(@, c)]

\* _last_request_time = time.monotonic(); session.get(...) is issued
Send(g, c) ==
    [g EXCEPT !.last = g.mono, !.st[c] = "inflight", !.wake[c] = 0,
              !.starts = Append(@, g.mono), !.issued = Append(@, c)]

\* inside the lock: read the clock, sleep if the interval has not elapsed
Admit(g, c) ==
    LET now == g.mono
        wait_ms == WaitMs(now, g.last)
        h == [g EXCEPT !.holder = c]
    IN  IF wait_ms > 0
        THEN [h EXCEPT !.st[c] = "sleeping", !.wake[c] = now + wait_ms]
        ELSE Send(h, c)

\* a gate without the lock: every caller goes straight to the clock
LockAlwaysFree(g) == TRUE

\* a lock a caller takes whenever it is unlocked, queued waiters or not
LockFreeBarging(g) == g.holder = 0

\* asyncio.Lock.acquire returns at once: unlocked and nobody queued
LockFree(g) == g.holder = 0 /\ g.waiters = <<>>

\* the gate after caller c has reached 'async with _rate_limit_lock'
Arrive(c) ==
    LET g == [gate EXCEPT !.calls = @ + 1, !.arrived = Append(@, c)]
    IN  IF LockFree(gate)
        THEN Admit(g, c)
        ELSE [g EXCEPT !.st[c] = "waiting", !.waiters = Append(@, c)]

\* a task calls _rate_limited_get
Call(c) ==
    /\ gate.st[c] = "out"
    /\ gate.calls < MaxRequests
    /\ gate' = Arrive(c)
    /\ UNCHANGED <<env, db, pc, outcome, loc, hist, faults>>

\* the first waiter, woken by the release, gets the lock
Resume(c) ==
    /\ gate.holder = 0
    /\ gate.waiters # <<>>
    /\ Head(gate.waiters) = c
    /\ gate' = Admit([gate EXCEPT !.waiters = Tail(@)], c)
    /\ UNCHANGED <<env, db, pc, outcome, loc, hist, faults>>

\* asyncio.sleep(wait_ms / 1000) is over
Wake(c) ==
    /\ gate.st[c] = "sleeping"
    /\ gate.mono >= gate.wake[c]
    /\ gate' = Send(gate, c)
    /\ UNCHANGED <<env, db, pc, outcome, loc, hist, faults>>

\* a gate its caller leaves without releasing the lock
RespondKeepLock(c) ==
    /\ gate.st[c] = "inflight"
    /\ gate' = [gate EXCEPT !.st[c] = "out"]
    /\ UNCHANGED <<env, db, pc, outcome, loc, hist, faults>>

\* session.get returns (or raises): the lock is released
Respond(c) ==
    /\ gate.st[c] = "inflight"
    /\ gate' = [gate EXCEPT !.holder = 0, !.st[c] = "out"]
    /\ UNCHANGED <<env, db, pc, outcome, loc, hist, faults>>

\* monotonic time passes
GateTick ==
    /\ gate.mono < MaxMono
    /\ gate' = [gate EXCEPT !.mono = @ + Quantum]
    /\ UNCHANGED <<env, db, pc, outcome, loc, hist, faults>>

NextGate ==
    \/ GateTick
    \/ \E c \in Callers : Call(c) \/ Resume(c) \/ Wake(c) \/ Respond(c)

SpecGate == Init /\ [][NextGate]_vars

\* a gate that stays locked when the request raises
RespondErrorKeepLock(c) ==
    /\ gate.st[c] = "inflight"
    /\ gate' = [gate EXCEPT !.st[c] = "out",
                            !.failed = @ \cup {Len(gate.starts)}]
    /\ UNCHANGED <<env, db, pc, outcome, loc, hist, faults>>

\* session.get raises (aiohttp.ClientError, a timeout): 'async with' releases
\* the lock on the way out and _last_request_time keeps the value set before
\* the request
RespondError(c) ==
    /\ gate.st[c] = "inflight"
    /\ gate' = [gate EXCEPT !.holder = 0, !.st[c] = "out",
                            !.failed = @ \cup {Len(gate.starts)}]
    /\ UNCHANGED <<env, db, pc, outcome, loc, hist, faults>>

\* monotonic time passes, and goes on passing while a caller sleeps
GateTime ==
    /\ \/ gate.mono < MaxMono
       \/ \E c \in Callers :
             gate.st[c] = "sleeping" /\ gate.mono < gate.wake[c]
    /\ gate' = [gate EXCEPT !.mono = @ + Quantum]
    /\ UNCHANGED <<env, db, pc, outcome, loc, hist, faults>>

NextGateFail ==
    \/ GateTime
    \/ \E c \in Callers :
          Call(c) \/ Resume(c) \/ Wake(c) \/ Respond(c) \/ RespondError(c)

\* the gate with requests that may raise; time passes, the event loop runs
\* a task that can run, and a request ends by returning or by raising
SpecGateFail ==
    /\ Init
    /\ [][NextGateFail]_vars
    /\ WF_vars(GateTime)
    /\ \A c \in Callers :
          /\ WF_vars(Resume(c))
          /\ WF_vars(Wake(c))
          /\ WF_vars(Respond(c) \/ RespondError(c))

-----------------------------------------------------------------------------
(* fetch_last_fm_data on its own: one fetch over a whole history, against a *)
(* feed whose totalPages may report more pages than it has.                 *)

\* the histories of n listens, one per second
Histories(n) == {[i \in 1..n |-> Item(f[i], i)] : f \in [1..n -> Shapes]}

\* the cycle of task 1 has read checkpoint 0 and is about to request page 1
InitFetch ==
    /\ \E n \in 0..MaxItems :
          /\ feed \in Histories(n)
          /\ clock = IF n = 0 THEN 1 ELSE n
    /\ surplus \in 0..MaxSurplus
    /\ sched = "startup"
    /\ ckpt = 0
    /\ artists = <<>>
    /\ albums = <<>>
    /\ tracks = <<>>
    /\ scrobbles = <<>>
    /\ pc = [p \in Procs |-> IF p = 1 THEN "fetch" ELSE "idle"]
    /\ outcome = [p \in Procs |-> "none"]
    /\ loc = [p \in Procs |->
                IF p = 1
                THEN [LocInit EXCEPT !.starting_time = StartingTime(0),
                                     !.now = clock, !.page = 1]
                ELSE LocInit]
    /\ hist = [p \in Procs |->
                IF p = 1
                THEN [HistInit EXCEPT !.ckpt0 = 0, !.last = Op("read", "ckpt")]
                ELSE HistInit]
    /\ faults = 0
    /\ gate = GateInit

\* a 200 response whose 'track' is not a list: the loop breaks
FetchPageNotList(p) ==
    /\ pc[p] = "fetch"
    /\ faults < MaxFaults
    /\ faults' = faults + 1
    /\ AfterFetch(p, loc[p].all_tracks)
    /\ hist' = [hist EXCEPT ![p].pages = @ + 1, ![p].abnormal = TRUE,
                            ![p].last = Op("page", "notlist")]
    /\ UNCHANGED <<env, db, outcome, gate>>

NextFetch == FetchPage(1) \/ FetchPageNotList(1)

SpecFetch == InitFetch /\ [][NextFetch]_vars

\* page k is one after which the loop has to stop
StopsAt(w, k) == k >= ReportedTotal(w) \/ PageOf(w, k) = <<>>

\* C13: the fetch requests pages 1, 2, ... in order and returns after the
\* first page whose number reaches the reported totalPages or whose track
\* list is empty or not a list: 3 requests for 3 non-empty pages reported
\* as 3, 2 requests when page 2 is empty whatever total is reported.
C13_PaginationStops ==
    LET w == Window(loc[1].starting_time, loc[1].now)
        n == hist[1].pages
        notlist == hist[1].last = Op("page", "notlist")
    IN  /\ pc[1] = "fetch" =>
              /\ loc[1].page = n + 1
              /\ \A k \in 1..n : ~StopsAt(w, k)
        /\ pc[1] # "fetch" =>
              /\ n >= 1
              /\ loc[1].page = n
              /\ \A k \in 1..(n - 1) : ~StopsAt(w, k)
              /\ StopsAt(w, n) \/ notlist
        /\ (pc[1] # "fetch" /\ ~notlist /\ ReportedTotal(w) = 3
              /\ \A k \in 1..3 : PageOf(w, k) # <<>>) => n = 3
        /\ (pc[1] # "fetch" /\ ~notlist /\ PageOf(w, 1) # <<>>
              /\ PageOf(w, 2) = <<>>) => n <= 2

\* the fetch returned after 3 requests from a feed of 3 non-empty pages
C13_Witness ==
    /\ pc[1] # "fetch"
    /\ hist[1].pages = 3
    /\ hist[1].last = Op("page", "ok")
    /\ surplus = 0
    /\ \A k \in 1..3 : PageOf(Window(loc[1].starting_time, loc[1].now), k) # <<>>

\* the fetch returned after 2 requests: page 2 was empty, 3 pages reported
C13_WitnessEmptyPage ==
    /\ pc[1] # "fetch"
    /\ hist[1].pages = 2
    /\ ReportedTotal(Window(loc[1].starting_time, loc[1].now)) = 3
    /\ PageOf(Window(loc[1].starting_time, loc[1].now), 2) = <<>>

-----------------------------------------------------------------------------
(* main.py: the process from its start.  start_scrobble_vault awaits one    *)
(* sync_scrobble_vault, then registers it with aiocron.crontab and waits    *)
(* forever.  The cron job calls the coroutine function at every tick of the *)
(* schedule and does not wait for the call of an earlier tick to finish; an *)
(* exception of such a call does not leave the job.  An exception of the    *)
(* startup run leaves start_scrobble_vault, the TaskGroup and main.         *)

\* the user listens before the process starts, or while it waits for a tick
Listen ==
    /\ sched = "cron" \/ (sched = "startup" /\ outcome[1] = "none")
    /\ Scrobble

\* await sync_scrobble_vault() at startup
StartupRun ==
    /\ sched = "startup"
    /\ outcome[1] = "none"
    /\ feed # <<>>
    /\ StartCycle(1)

\* the startup run returned: aiocron.crontab(..., func=sync_scrobble_vault)
Register ==
    /\ sched = "startup"
    /\ pc[1] = "idle"
    /\ outcome[1] \in {"done", "done_abnormal"}
    /\ sched' = "cron"
    /\ UNCHANGED <<feed, clock, surplus, db, pc, outcome, loc, hist, faults, gate>>

\* the startup run raised: the exception leaves main, the process ends
Exit ==
    /\ sched = "startup"
    /\ pc[1] = "idle"
    /\ outcome[1] = "failed"
    /\ sched' = "exited"
    /\ UNCHANGED <<feed, clock, surplus, db, pc, outcome, loc, hist, faults, gate>>

\* a tick of the schedule: the job starts sync_scrobble_vault as a new task
CronTick(p) ==
    /\ sched = "cron"
    /\ StartCycle(p)

\* a step of a running cycle; the only failures are those of the upstream
CycleStep(p) ==
    \/ InitSchema(p)
    \/ ReadCheckpoint(p)
    \/ FetchPage(p)
    \/ FetchPageError(p)
    \/ Check(p)
    \/ EndCheck(p)
    \/ Lookup(p)
    \/ Insert(p)
    \/ EndLookup(p)
    \/ Store(p)
    \/ Checkpoint(p)
    \/ CheckpointKeyError(p)
    \/ Finish(p)

NextCron ==
    \/ sched = "cron" /\ Tick
    \/ Listen
    \/ StartupRun
    \/ Register
    \/ Exit
    \/ \E p \in Procs : CronTick(p)
    \/ \E p \in Procs : CycleStep(p)

\* the event loop runs what is ready and the schedule's timer fires
SpecCron ==
    /\ Init
    /\ [][NextCron]_vars
    /\ WF_vars(StartupRun)
    /\ WF_vars(Register)
    /\ WF_vars(Exit)
    /\ \A p \in Procs : WF_vars(CronTick(p)) /\ WF_vars(CycleStep(p))

-----------------------------------------------------------------------------
(* Cycles and the gate together: every page request and every metadata      *)
(* lookup of a cycle is a call of _rate_limited_get, and the cycle goes on   *)
(* with the response once the call has returned.  Two cycles run at the     *)
(* same time, as two ticks of the cron job start them.                       *)

\* one listen in the history, the cron job registered, nothing stored yet
InitLock ==
    /\ feed \in Histories(1)
    /\ clock = 1
    /\ surplus = 0
    /\ sched = "cron"
    /\ ckpt = NoRow
    /\ artists = <<>>
    /\ albums = <<>>
    /\ tracks = <<>>
    /\ scrobbles = <<>>
    /\ pc = [p \in Procs |-> "idle"]
    /\ outcome = [p \in Procs |-> "none"]
    /\ loc = [p \in Procs |-> LocInit]
    /\ hist = [p \in Procs |-> HistInit]
    /\ faults = 0
    /\ gate = GateInit

\* the requests of task p that have gone out
Issued(p) == Cardinality({i \in 1..Len(gate.issued) : gate.issued[i] = p})

\* the responses the running cycle of task p has gone on with
Consumed(p) == hist[p].pages + Len(hist[p].lookups)

\* the next step of task p is a request to Last.fm
NeedsRequest(p) ==
    \/ pc[p] = "fetch"
    \/ /\ pc[p] = "lookup"
       /\ loc[p].idx <= Len(loc[p].new)
       /\ LET e == loc[p].new[loc[p].idx]
          IN  Sendable(loc[p].kind, LookupArtist(loc[p].kind, e),
                       LookupName(loc[p].kind, e), e.mbid)

\* _rate_limited_get has returned the response task p waits for
HasResponse(p) == gate.st[p] = "out" /\ Issued(p) = Consumed(p) + 1

\* task p calls _rate_limited_get for its page or its lookup
Request(p) ==
    /\ NeedsRequest(p)
    /\ gate.st[p] = "out"
    /\ Issued(p) = Consumed(p)
    /\ gate' = Arrive(p)
    /\ UNCHANGED <<env, db, pc, outcome, loc, hist, faults>>

\* a step of the cycle of task p; a step that reads a response waits for it
GatedStep(p) ==
    \/ InitSchema(p)
    \/ ReadCheckpoint(p)
    \/ HasResponse(p) /\ FetchPage(p)
    \/ Check(p)
    \/ EndCheck(p)
    \/ (NeedsRequest(p) => HasResponse(p)) /\ Lookup(p)
    \/ Insert(p)
    \/ EndLookup(p)
    \/ Store(p)
    \/ Checkpoint(p)
    \/ Finish(p)

NextLock ==
    \/ GateTick
    \/ \E p \in Procs :
          \/ outcome[p] = "none" /\ CronTick(p)
          \/ Request(p)
          \/ Resume(p)
          \/ Wake(p)
          \/ Respond(p)
          \/ GatedStep(p)

SpecLock == InitLock /\ [][NextLock]_vars

-----------------------------------------------------------------------------
(* Two cycles the cron job starts, with time passing and the user listening *)
(* while they run: a cycle reads the clock once, before its fetch, and the   *)
(* history goes on growing after that.                                       *)

\* a second passes, whatever runs
Pass ==
    /\ clock < MaxTime
    /\ clock' = clock + 1
    /\ UNCHANGED <<feed, surplus, sched, db, pc, outcome, loc, hist, faults, gate>>

\* the user finishes a listen, whatever runs
ListenDuring ==
    /\ FeedMax < clock
    /\ \E sh \in Shapes : feed' = Append(feed, Item(sh, clock))
    /\ UNCHANGED <<clock, surplus, sched, db, pc, outcome, loc, hist, faults, gate>>

\* the cron job is registered, nothing is stored yet
InitOverlap ==
    /\ feed = <<>>
    /\ clock = 1
    /\ surplus = 0
    /\ sched = "cron"
    /\ ckpt = NoRow
    /\ artists = <<>>
    /\ albums = <<>>
    /\ tracks = <<>>
    /\ scrobbles = <<>>
    /\ pc = [p \in Procs |-> "idle"]
    /\ outcome = [p \in Procs |-> "none"]
    /\ loc = [p \in Procs |-> LocInit]
    /\ hist = [p \in Procs |-> HistInit]
    /\ faults = 0
    /\ gate = GateInit

\* each task runs one cycle, started by a tick of the schedule
NextOverlap ==
    \/ Pass
    \/ ListenDuring
    \/ \E p \in Procs : outcome[p] = "none" /\ CronTick(p)
    \/ \E p \in Procs : CycleStep(p)

SpecOverlap == InitOverlap /\ [][NextOverlap]_vars

-----------------------------------------------------------------------------
(* Cycles over a history that holds a misspelt track name: a listen of      *)
(* artist A whose track is written U, which track.getInfo corrects to T.    *)

\* a listen of track T by artist A, the track name written U
ShapeMisspelt == Shape(<<"A">>, "", <<"U">>, "", <<>>, "", FALSE, "ok")

\* one or two listens, one per second, nothing stored yet
InitLink ==
    /\ \E n \in 1..2 :
          /\ feed \in {[i \in 1..n |-> Item(f[i], i)] :
                         f \in [1..n -> Shapes \cup {ShapeMisspelt}]}
          /\ clock = n
    /\ surplus = 0
    /\ sched = "startup"
    /\ ckpt = NoRow
    /\ artists = <<>>
    /\ albums = <<>>
    /\ tracks = <<>>
    /\ scrobbles = <<>>
    /\ pc = [p \in Procs |-> "idle"]
    /\ outcome = [p \in Procs |-> "none"]
    /\ loc = [p \in Procs |-> LocInit]
    /\ hist = [p \in Procs |-> HistInit]
    /\ faults = 0
    /\ gate = GateInit

\* cycles one after the other over that history
NextLink ==
    \/ Idle /\ StartCycle(1)
    \/ Step(1)

SpecLink == InitLink /\ [][NextLink]_vars

-----------------------------------------------------------------------------
(* The claims *)

\* an upstream event the cycle is bound to store: completed, with an artist
\* name, a track name and a non-zero timestamp
Storable(e) ==
    ~e.np /\ e.artist # <<>> /\ e.name # <<>> /\ e.uts # NoDate /\ e.uts # 0

\* the event store holds a row for the upstream event e
Stored(e) ==
    \E j \in 1..Len(scrobbles) :
        /\ scrobbles[j].listened_at = e.uts
        /\ scrobbles[j].artist_name = e.artist
        /\ scrobbles[j].track_name = e.name

\* C1: no event is lost: every storable upstream event whose timestamp is at
\* or below the checkpoint is in the event store.
C1_NoEventLost ==
    \A i \in 1..Len(feed) :
        (Storable(feed[i]) /\ ckpt # NoRow /\ feed[i].uts <= ckpt) => Stored(feed[i])

\* C2: no event is duplicated: the event store holds at most one row per
\* upstream event (artist name, track name, occurredAt), resolved or not.
C2_NoDuplicateEvent ==
    \A i, j \in 1..Len(scrobbles) :
        (/\ scrobbles[i].listened_at = scrobbles[j].listened_at
         /\ scrobbles[i].artist_name = scrobbles[j].artist_name
         /\ scrobbles[i].track_name = scrobbles[j].track_name) => i = j

C4_RecoveryInsertsAreNoOps ==
    [][\A p \in Procs :
          (hist[p].prev = "crashed_after_store" /\ pc[p] = "store")
          => scrobbles' = scrobbles]_vars

\* C5: within one cycle no two metadata lookups of a kind are made for the
\* same normalized key.
C5_OneLookupPerKey ==
    \A p \in Procs : \A i, j \in 1..Len(hist[p].lookups) :
        hist[p].lookups[i] = hist[p].lookups[j] => i = j

\* the batch names one artist in two spellings and the artist was looked up
C5_Witness ==
    /\ \E i, j \in 1..Len(loc[1].all_tracks) :
          /\ loc[1].all_tracks[i].artist # loc[1].all_tracks[j].artist
          /\ loc[1].all_tracks[i].artist # <<>>
          /\ normalize(loc[1].all_tracks[i].artist) = normalize(loc[1].all_tracks[j].artist)
    /\ \E k \in 1..Len(hist[1].lookups) : hist[1].lookups[k] = <<"artist", <<"a">>>>
    /\ hist[1].returned = {"artist", "album", "track"}

\* C6: the start times of any two consecutive requests are at least
\* RATE_LIMIT_MS apart, whatever the interleaving of the callers.
C6_MinimumSpacing ==
    \A i \in 1..(Len(gate.starts) - 1) :
        gate.starts[i + 1] - gate.starts[i] >= RATE_LIMIT_MS

\* two requests were issued while another caller was queued at the gate
C6_Witness ==
    /\ Len(gate.starts) >= 2
    /\ gate.waiters # <<>>

\* C7: when a cycle with a non-empty batch completes, the checkpoint is the
\* maximum occurredAt of the batch.
C7_CheckpointIsMax ==
    \A p \in Procs :
        (pc[p] = "finish" /\ loc[p].all_tracks # <<>>) =>
            /\ hist[p].writes = 1
            /\ \E i \in 1..Len(loc[p].all_tracks) : loc[p].all_tracks[i].uts = ckpt
            /\ \A i \in 1..Len(loc[p].all_tracks) : loc[p].all_tracks[i].uts <= ckpt

\* a cycle completed whose last event in iteration order is not the newest
C7_Witness ==
    /\ pc[1] = "finish"
    /\ Len(loc[1].all_tracks) >= 2
    /\ loc[1].all_tracks[Len(loc[1].all_tracks)].uts < ckpt

\* C8: a page request answered with a status other than 200 ends the cycle
\* in failure at once: checkpoint and tables unchanged, nothing stored or
\* resolved by the cycle, no further request, and the window start a next
\* cycle computes is the one of the failed cycle.
C8_FetchFailureAborts ==
    [][\A p \in Procs :
          (pc[p] = "fetch" /\ hist'[p].last = Op("page", "error")) =>
              /\ pc'[p] = "idle"
              /\ outcome'[p] = "failed"
              /\ db' = db
              /\ hist[p].rows = 0
              /\ hist[p].stored = 0
              /\ hist[p].lookups = <<>>
              /\ hist[p].writes = 0
              /\ StartingTime(ckpt') = loc[p].starting_time]_vars

\* a cycle failed on its second page request
C8_Witness ==
    /\ hist[1].last = Op("page", "error")
    /\ hist[1].pages = 2
    /\ outcome[1] = "failed"

\* C9: no album operation before the artist resolver has returned, no track
\* operation before the album resolver has returned, no event insert before
\* the track resolver has returned.
C9_CrossKindOrder ==
    \A p \in Procs :
        /\ hist[p].last.kind = "album" => "artist" \in hist[p].returned
        /\ hist[p].last.kind = "track" => {"artist", "album"} \subseteq hist[p].returned
        /\ hist[p].last.kind = "event" =>
              {"artist", "album", "track"} \subseteq hist[p].returned

\* an event was inserted after all three resolvers inserted a row
C9_Witness ==
    /\ hist[1].last = Op("store", "event")
    /\ Len(artists) >= 1 /\ Len(albums) >= 1 /\ Len(tracks) >= 1
    /\ hist[1].rows >= 4

\* C10: the checkpoint is written at most once per cycle, and only after
\* the fetch, the three resolvers and every event insert; until then it
\* keeps the value it had when the cycle started (init_sync_table creating
\* the row with 0 is not a write of the value), also when the cycle fails.
C10_CheckpointWrittenOnceAtEnd ==
    /\ [](\A p \in Procs :
            /\ hist[p].writes <= 1
            /\ hist[p].writes = 1 =>
                  /\ pc[p] = "finish"
                  /\ hist[p].pages >= 1
                  /\ hist[p].returned = {"artist", "album", "track"}
                  /\ hist[p].stored = Len(loc[p].all_tracks)
            /\ (pc[p] # "idle" /\ hist[p].writes = 0) =>
                  \/ ckpt = hist[p].ckpt0
                  \/ hist[p].ckpt0 = NoRow /\ ckpt = 0)
    /\ [][\A p \in Procs :
            (pc[p] # "idle" /\ outcome'[p] \in {"failed", "crashed", "crashed_after_store"})
            => ckpt' = ckpt]_vars

\* a cycle has written the checkpoint, and an earlier cycle had failed
C10_Witness ==
    /\ pc[1] = "finish"
    /\ hist[1].writes = 1
    /\ hist[1].prev = "failed"

\* C11: an item the feed marks as now-playing is in no batch a cycle works
\* on, whatever page delivered it: no resolver sees its artist or track, no
\* lookup is made for it, the event store has no row for it and the
\* checkpoint is never its timestamp.
C11_NowPlayingFiltered ==
    /\ \A p \in Procs :
          /\ \A i \in 1..Len(loc[p].all_tracks) : ~loc[p].all_tracks[i].np
          /\ \A i \in 1..Len(loc[p].unique) : loc[p].unique[i].key[1] # <<"c">>
          /\ \A i \in 1..Len(hist[p].lookups) : hist[p].lookups[i][2] # <<"c">>
    /\ \A i \in 1..Len(feed) :
          feed[i].np =>
              /\ \A j \in 1..Len(scrobbles) : scrobbles[j].listened_at # feed[i].uts
              /\ ckpt # feed[i].uts

\* a cycle stored a completed listen from a window whose second page held
\* only the now-playing item
C11_Witness ==
    /\ \E i \in 1..Len(feed) : feed[i].np /\ feed[i].at < FeedMax
    /\ pc[1] = "finish"
    /\ hist[1].pages >= 2
    /\ hist[1].stored >= 1
    /\ hist[1].writes = 1

\* the timestamps of the events of batch b that insert_scrobble accepts
AcceptedUts(b) == {b[i].uts : i \in {j \in 1..Len(b) : ~Skipped(b[j])}}

\* C12: an event without artist name, track name or timestamp is never
\* stored and does not influence the checkpoint: the checkpoint computation
\* of a batch never fails on it, and a completed cycle leaves the checkpoint
\* at the maximum timestamp of the accepted events (where it was, if none).
C12_RejectedEventsIgnored ==
    /\ \A j \in 1..Len(scrobbles) :
          /\ scrobbles[j].artist_name # <<>>
          /\ scrobbles[j].track_name # <<>>
          /\ scrobbles[j].listened_at > 0
    /\ \A p \in Procs :
          /\ pc[p] = "checkpoint" =>
                \A i \in 1..Len(loc[p].all_tracks) : loc[p].all_tracks[i].uts # NoDate
          /\ (pc[p] = "finish" /\ loc[p].all_tracks # <<>>) =>
                LET acc == AcceptedUts(loc[p].all_tracks)
                IN  IF acc = {}
                    THEN \/ ckpt = hist[p].ckpt0
                         \/ hist[p].ckpt0 = NoRow /\ ckpt = 0
                    ELSE ckpt \in acc /\ \A u \in acc : u <= ckpt

\* the batch of task p names the artist of normalized key k with mbid m in
\* one event and without an mbid in another
MixedArtist(p, k, m) ==
    \E i, j \in 1..Len(loc[p].all_tracks) :
        LET a == loc[p].all_tracks[i]
            b == loc[p].all_tracks[j]
        IN  /\ a.amb = m /\ m # "" /\ b.amb = ""
            /\ a.artist # <<>> /\ b.artist # <<>>
            /\ normalize(a.artist) = k /\ normalize(b.artist) = k
            /\ \A h \in 1..Len(loc[p].all_tracks) :
                  normalize(loc[p].all_tracks[h].artist) = k
                  => loc[p].all_tracks[h].amb \in {m, ""}

\* C14: a batch that names one normalized artist with an mbid and without
\* (in either order) gives one representative carrying the mbid, at most
\* one lookup, made by that mbid, and, once the artist resolver has returned
\* with every lookup answered, exactly one artist row, its mbid populated.
C14_DedupKeepsMbid ==
    \A p \in Procs : \A k \in {<<"a">>, <<"b">>, <<"c">>} : \A m \in {"m1", "m2"} :
        MixedArtist(p, k, m) =>
            /\ loc[p].kind = "artist" =>
                  /\ \E i \in 1..Len(loc[p].unique) :
                        loc[p].unique[i].key = <<k>> /\ loc[p].unique[i].mbid = m
                  /\ \A i, j \in 1..Len(loc[p].unique) :
                        (loc[p].unique[i].key = <<k>> /\ loc[p].unique[j].key = <<k>>)
                        => i = j
            /\ \A i, j \in 1..Len(hist[p].lookups) :
                  hist[p].lookups[i] = <<"artist", k>> =>
                      /\ hist[p].by[i] = m
                      /\ hist[p].lookups[j] = <<"artist", k>> => i = j
            /\ ("artist" \in hist[p].returned /\ ~hist[p].abnormal) =>
                  /\ \E i \in 1..Len(artists) :
                        artists[i].norm = k /\ artists[i].mbid # None
                  /\ \A i, j \in 1..Len(artists) :
                        (artists[i].norm = k /\ artists[j].norm = k) => i = j

\* the mbid came second in the batch, the lookup was made by it and the
\* row was stored
C14_Witness ==
    /\ MixedArtist(1, <<"a">>, "m1")
    /\ loc[1].all_tracks[1].amb = ""
    /\ hist[1].lookups # <<>>
    /\ hist[1].lookups[1] = <<"artist", <<"a">>>>
    /\ hist[1].by[1] = "m1"
    /\ "artist" \in hist[1].returned
    /\ Len(artists) = 1 /\ artists[1].mbid = "m1"

\* C15: when the fetch yields no event the cycle goes straight to its end
\* and completes: no resolver is entered, no lookup, no row, no checkpoint
\* write; checkpoint and tables are as the fetch found them.
C15_EmptyFetchShortCircuit ==
    /\ [](\A p \in Procs :
            (pc[p] \notin {"idle", "init", "read", "fetch"} /\ loc[p].all_tracks = <<>>) =>
                /\ pc[p] = "finish"
                /\ hist[p].last.op = "page"
                /\ hist[p].returned = {}
                /\ hist[p].lookups = <<>>
                /\ hist[p].rows = 0
                /\ hist[p].stored = 0
                /\ hist[p].writes = 0
                /\ ckpt = IF hist[p].ckpt0 = NoRow THEN 0 ELSE hist[p].ckpt0)
    /\ [][\A p \in Procs :
            (pc[p] = "finish" /\ loc[p].all_tracks = <<>> /\ faults' = faults) =>
                /\ outcome'[p] \in {"done", "done_abnormal"}
                /\ db' = db]_vars

\* a cycle is at its end after a well-formed page without a completed
\* listen, the store holding the rows and the checkpoint of an earlier cycle
C15_Witness ==
    /\ pc[1] = "finish"
    /\ loc[1].all_tracks = <<>>
    /\ hist[1].last = Op("page", "ok")
    /\ ~hist[1].abnormal
    /\ hist[1].ckpt0 > 0
    /\ scrobbles # <<>>

\* C16: cycles do not overlap: at no time are two sync cycles in flight.
C16_NoOverlap ==
    \A p, q \in Procs : (pc[p] # "idle" /\ pc[q] # "idle") => p = q

\* C17: whenever a cycle has ended in failure, the startup run included,
\* the scheduler starts a fresh cycle later on.
C17_RestartAfterFailure ==
    \A p \in Procs :
        (pc[p] = "idle" /\ outcome[p] = "failed") ~> (\E q \in Procs : pc[q] = "init")

\* the step is a page request of task p that failed or was answered with a
\* status other than 200
PageCallFails(p) == pc[p] = "fetch" /\ hist'[p].last = Op("page", "error")

\* the step is a metadata lookup of task p that failed or was answered
\* with a status other than 200
LookupCallFails(p) == pc[p] = "lookup" /\ hist'[p].last.op = "lookup_error"

\* C18: a transport failure or a non-success status of any outbound call of
\* the cycle, page request or metadata lookup, stops the cycle there with
\* the checkpoint untouched.
C18_CallFailureStopsCycle ==
    [][\A p \in Procs :
          (PageCallFails(p) \/ LookupCallFails(p)) =>
              /\ pc'[p] = "idle"
              /\ outcome'[p] = "failed"
              /\ ckpt' = ckpt]_vars

\* C19: the window of a cycle starts at 0 while the checkpoint has never
\* been advanced (no row, or the row as init_sync_table creates it) and at
\* checkpoint + 1 otherwise, and it ends at the time read before the fetch.
C19_SyncWindow ==
    \A p \in Procs :
        pc[p] \notin {"idle", "init", "read"} =>
            /\ loc[p].starting_time =
                  IF hist[p].ckpt0 \in {NoRow, 0} THEN 0 ELSE hist[p].ckpt0 + 1
            /\ loc[p].now = clock

\* each row of table tbl is in tbl' at the same place, unchanged
RowsKept(tbl, tbl2) ==
    /\ Len(tbl2) >= Len(tbl)
    /\ \A i \in 1..Len(tbl) : tbl2[i] = tbl[i]

\* the key of the entity task p is about to insert is already stored
KeyStored(p) ==
    LET info == loc[p].info
    IN  CASE loc[p].kind = "artist" ->
               FindArtist(artists, normalize(info.name)) # NULL
          [] loc[p].kind = "album" ->
               FindPair(albums, normalize(info.artist), normalize(info.name)) # NULL
          [] loc[p].kind = "track" ->
               FindPair(tracks, normalize(info.artist), normalize(info.name)) # NULL
          [] OTHER -> FALSE

\* C20: an insert of an artist, album or track whose normalized key is
\* stored raises nothing and changes no table; no entity row is ever
\* updated or deleted; no table holds two rows with one normalized key.
C20_UpsertDoNothing ==
    /\ [](/\ \A i, j \in 1..Len(artists) :
                artists[i].norm = artists[j].norm => i = j
          /\ \A i, j \in 1..Len(albums) :
                (albums[i].anorm = albums[j].anorm /\ albums[i].norm = albums[j].norm)
                => i = j
          /\ \A i, j \in 1..Len(tracks) :
                (tracks[i].anorm = tracks[j].anorm /\ tracks[i].norm = tracks[j].norm)
                => i = j)
    /\ [][/\ RowsKept(artists, artists')
          /\ RowsKept(albums, albums')
          /\ RowsKept(tracks, tracks')
          /\ \A p \in Procs :
                (pc[p] = "insert" /\ KeyStored(p) /\ faults' = faults) =>
                    /\ pc'[p] = "lookup"
                    /\ tables' = tables]_vars

\* the second artist insert of a cycle was for the key the first had stored
C20_Witness ==
    /\ hist[1].last = Op("insert", "artist")
    /\ loc[1].idx = 3
    /\ Len(hist[1].lookups) = 2
    /\ hist[1].rows = 1
    /\ Len(artists) = 1

\* the step is a storage call of task p, in a resolver or in the insert
\* loop, that raised
StorageCallFails(p) ==
    pc[p] \in {"check", "insert", "store"} /\ hist'[p].last.op = "storage_error"

\* C21: a storage error raised by an existence check or an insert of a
\* resolver, or by an event insert, leaves sync_scrobble_vault: the cycle
\* ends in failure at that call, the checkpoint is not written, and the rows
\* the cycle inserted before stay stored.
C21_StorageFailureIsFatal ==
    [][\A p \in Procs :
          StorageCallFails(p) =>
              /\ pc'[p] = "idle"
              /\ outcome'[p] = "failed"
              /\ hist[p].writes = 0
              /\ ckpt' = ckpt
              /\ tables' = tables]_vars

\* an event insert raised after the cycle had stored an entity and an event
C21_Witness ==
    /\ outcome[1] = "failed"
    /\ hist[1].last = Op("storage_error", "event")
    /\ hist[1].rows >= 2
    /\ scrobbles # <<>>
    /\ artists # <<>>

\* the batch b holds an event insert_scrobble rejects: no artist name, no
\* track name or no timestamp
Malformed(b) == \E i \in 1..Len(b) : Skipped(b[i])

\* C22: a batch holding an event without artist name, track name or date
\* does not abort the cycle: the cycle fails only where a storage call or a
\* page request fails, and when it completes every valid event of the batch
\* is stored and the checkpoint has been written.
C22_MalformedEventDoesNotAbort ==
    /\ [](\A p \in Procs :
            (pc[p] = "finish" /\ Malformed(loc[p].all_tracks)) =>
                /\ hist[p].writes = 1
                /\ \A i \in 1..Len(loc[p].all_tracks) :
                      ~Skipped(loc[p].all_tracks[i]) => Stored(loc[p].all_tracks[i]))
    /\ [][\A p \in Procs :
            (pc[p] # "idle" /\ Malformed(loc[p].all_tracks) /\ outcome'[p] = "failed")
            => hist'[p].last.op \in {"storage_error", "page"}]_vars

\* what fetch_*_info returns for the key task p is about to look up, when
\* the request (if one is sent) is answered with status 200
AnswerFor(p) ==
    LET l == loc[p]
        e == l.new[l.idx]
        artist == LookupArtist(l.kind, e)
        name == LookupName(l.kind, e)
    IN  IF Sendable(l.kind, artist, name, e.mbid)
        THEN Answer(l.kind, artist, name, e.mbid)
        ELSE Empty

\* the step is a track lookup of task p that returns nothing
TrackLookupEmpty(p) ==
    /\ pc[p] = "lookup"
    /\ loc[p].kind = "track"
    /\ loc[p].idx <= Len(loc[p].new)
    /\ \/ hist'[p].last = Op("lookup_error", "track")
       \/ hist'[p].last = Op("lookup", "track") /\ ~AnswerFor(p).ok

\* the valid event s has no row in tracks
Unresolved(s) ==
    ~Skipped(s) /\ FindPair(tracks, normalize(s.artist), normalize(s.name)) = NULL

\* the event store holds s with an absent track id and its names
StoredUnresolved(s) ==
    \E j \in 1..Len(scrobbles) :
        scrobbles[j] = [track_id |-> NULL, listened_at |-> s.uts,
                        artist_name |-> s.artist, track_name |-> s.name,
                        album_name |-> s.album]

\* C23: a track lookup that returns nothing does not stop the resolver or
\* the cycle: the resolver goes on with its next key, the insert loop stores
\* the event with an absent track id and its artist, track and album names,
\* the cycle fails only where a storage call or a page request fails or a
\* date is missing, and when it completes the checkpoint has been written.
C23_UnresolvedTrackStillStored ==
    /\ [](\A p \in Procs :
            (pc[p] = "finish" /\ loc[p].all_tracks # <<>>) =>
                /\ hist[p].writes = 1
                /\ \A i \in 1..Len(loc[p].all_tracks) :
                      Unresolved(loc[p].all_tracks[i])
                      => StoredUnresolved(loc[p].all_tracks[i]))
    /\ [][\A p \in Procs :
            /\ TrackLookupEmpty(p) =>
                  /\ pc'[p] = "lookup"
                  /\ loc'[p].idx = loc[p].idx + 1
                  /\ outcome'[p] = outcome[p]
                  /\ db' = db
            /\ (pc[p] = "store" /\ hist'[p].last = Op("store", "event")
                  /\ Unresolved(loc[p].all_tracks[loc[p].idx])) =>
                  LET s == loc[p].all_tracks[loc[p].idx]
                  IN  scrobbles' = Append(scrobbles,
                          [track_id |-> NULL, listened_at |-> s.uts,
                           artist_name |-> s.artist, track_name |-> s.name,
                           album_name |-> s.album])
            /\ (pc[p] # "idle" /\ outcome'[p] = "failed") =>
                  \/ hist'[p].last.op \in {"storage_error", "page"}
                  \/ MissingDate(loc[p].all_tracks)]_vars

\* a cycle completed after its track resolver got nothing for one key and
\* went on to look up and store the next: the event of the first is stored
\* without a track id
C23_Witness ==
    /\ pc[1] = "finish"
    /\ hist[1].writes = 1
    /\ \E i, j \in 1..Len(hist[1].lookups) :
          /\ i < j
          /\ hist[1].lookups[i] = <<"track", <<"b">>, <<"u">>>>
          /\ hist[1].lookups[j] = <<"track", <<"a">>, <<"t">>>>
    /\ tracks # <<>>
    /\ \E j \in 1..Len(scrobbles) :
          /\ scrobbles[j].track_id = NULL
          /\ scrobbles[j].artist_name = <<"B">>
          /\ scrobbles[j].track_name = <<"U">>

\* the foreign key fk is absent or the id of a row of table tbl
RefersTo(fk, tbl) == fk = NULL \/ fk \in 1..Len(tbl)

\* C24: an album or track whose parent artist (or, for a track, album) is
\* not found by its normalized key is inserted all the same, with that
\* foreign key absent; every artist_id, album_id and track_id that is not
\* absent is the id of a stored row, the one with the key it was looked up by.
C24_ParentForeignKeys ==
    /\ [](/\ \A i \in 1..Len(albums) :
                /\ RefersTo(albums[i].artist_id, artists)
                /\ albums[i].artist_id # NULL
                   => artists[albums[i].artist_id].norm = albums[i].anorm
          /\ \A i \in 1..Len(tracks) :
                /\ RefersTo(tracks[i].artist_id, artists)
                /\ RefersTo(tracks[i].album_id, albums)
                /\ tracks[i].artist_id # NULL
                   => artists[tracks[i].artist_id].norm = tracks[i].anorm
          /\ \A i \in 1..Len(scrobbles) :
                /\ RefersTo(scrobbles[i].track_id, tracks)
                /\ scrobbles[i].track_id # NULL
                   => /\ tracks[scrobbles[i].track_id].anorm
                            = normalize(scrobbles[i].artist_name)
                      /\ tracks[scrobbles[i].track_id].norm
                            = normalize(scrobbles[i].track_name))
    /\ [][\A p \in Procs :
            (pc[p] = "insert" /\ hist'[p].last.op = "insert" /\ ~KeyStored(p)) =>
                LET info == loc[p].info
                    noArtist == FindArtist(artists, normalize(info.artist)) = NULL
                    noAlbum ==
                        \/ info.albumTitle = <<>>
                        \/ FindPair(albums,
                              normalize(IF info.albumArtist # <<>>
                                        THEN info.albumArtist ELSE info.artist),
                              normalize(info.albumTitle)) = NULL
                IN  /\ loc[p].kind = "album" =>
                          /\ Len(albums') = Len(albums) + 1
                          /\ noArtist => albums'[Len(albums')].artist_id = NULL
                    /\ loc[p].kind = "track" =>
                          /\ Len(tracks') = Len(tracks) + 1
                          /\ noArtist => tracks'[Len(tracks')].artist_id = NULL
                          /\ noAlbum => tracks'[Len(tracks')].album_id = NULL]_vars

\* the artist lookup of a cycle failed: its album is stored without an
\* artist id, its track without an artist id and with the album's id, and
\* the event with the track's id
C24_Witness ==
    /\ artists = <<>>
    /\ Len(albums) = 1 /\ albums[1].artist_id = NULL
    /\ Len(tracks) = 1 /\ tracks[1].artist_id = NULL /\ tracks[1].album_id = 1
    /\ Len(scrobbles) = 1 /\ scrobbles[1].track_id = 1

\* the number of lookups of a kind among the lookups ls
RECURSIVE CountKind(_, _)
CountKind(ls, kind) ==
    IF ls = <<>> THEN 0
    ELSE (IF Head(ls)[1] = kind THEN 1 ELSE 0) + CountKind(Tail(ls), kind)

\* C25: a key storage holds when the resolver checks it is dropped: the
\* resolver's lookups and inserts are for the keys it found missing, one
\* after the other; a resolver that found no key missing (or no valid
\* reference in the batch) makes no request and returns to the cycle, which
\* goes on.
C25_ExistenceFilter ==
    /\ [](\A p \in Procs :
            /\ pc[p] = "check" => CountKind(hist[p].lookups, loc[p].kind) = 0
            /\ pc[p] \in {"lookup", "insert"} =>
                  /\ CountKind(hist[p].lookups, loc[p].kind) <= Len(loc[p].new)
                  /\ \A i \in 1..Len(loc[p].new) : \E j \in 1..Len(loc[p].unique) :
                        loc[p].new[i] = loc[p].unique[j])
    /\ [][\A p \in Procs :
            /\ (pc[p] = "check" /\ hist'[p].last.op = "check"
                  /\ loc[p].idx <= Len(loc[p].unique)) =>
                  /\ loc'[p].new =
                        IF Exists(loc[p].kind, loc[p].unique[loc[p].idx])
                        THEN loc[p].new
                        ELSE Append(loc[p].new, loc[p].unique[loc[p].idx])
                  /\ db' = db
                  /\ hist'[p].lookups = hist[p].lookups
            /\ (pc[p] = "check" /\ loc[p].idx > Len(loc[p].unique)
                  /\ loc[p].new = <<>> /\ faults' = faults) =>
                  /\ pc'[p] \in {"check", "store"}
                  /\ hist'[p].returned = hist[p].returned \cup {loc[p].kind}
                  /\ hist'[p].lookups = hist[p].lookups
                  /\ outcome'[p] = outcome[p]
                  /\ db' = db
            /\ (pc[p] = "lookup" /\ pc'[p] # "idle"
                  /\ hist'[p].lookups # hist[p].lookups) =>
                  /\ loc[p].idx <= Len(loc[p].new)
                  /\ ~\E j \in 1..Len(hist[p].lookups) :
                        hist[p].lookups[j] = LookupKey(loc[p].kind, loc[p].new[loc[p].idx])
                  /\ hist'[p].lookups =
                        Append(hist[p].lookups,
                               LookupKey(loc[p].kind, loc[p].new[loc[p].idx]))
            /\ (\A q \in Procs : pc[q] # "insert") =>
                  (artists' = artists /\ albums' = albums /\ tracks' = tracks)]_vars

\* the three resolvers of a cycle returned without a request: the batch
\* names an artist, an album and a track an earlier cycle stored
C25_Witness ==
    /\ pc[1] = "store"
    /\ hist[1].returned = {"artist", "album", "track"}
    /\ hist[1].lookups = <<>>
    /\ ~hist[1].abnormal
    /\ \E i \in 1..Len(loc[1].all_tracks) :
          /\ loc[1].all_tracks[i].artist # <<>>
          /\ loc[1].all_tracks[i].album # <<>>
          /\ loc[1].all_tracks[i].name # <<>>
    /\ artists # <<>> /\ albums # <<>> /\ tracks # <<>>

\* C26: the callers of _rate_limited_get are admitted in the order they
\* arrived: the requests issued so far are those of the first arrivals, in
\* arrival order, so no caller issues its request before one that arrived
\* earlier and still waits.
C26_GateFifo ==
    /\ Len(gate.issued) <= Len(gate.arrived)
    /\ \A i \in 1..Len(gate.issued) : gate.issued[i] = gate.arrived[i]
    /\ \A i \in 1..Len(gate.waiters) :
          gate.waiters[i] =
              gate.arrived[Len(gate.arrived) - Len(gate.waiters) + i]

\* the lock has been released with two callers queued, a third request has
\* gone out and a caller is still queued
C26_Witness ==
    /\ gate.holder # 0
    /\ Len(gate.issued) = 3
    /\ Len(gate.arrived) = 4
    /\ Len(gate.waiters) = 1
    /\ gate.issued[2] # gate.issued[3]

\* C27: a cycle does not hold the rate-limit gate while it computes an
\* embedding or runs a storage operation: at an existence check, an entity
\* insert (embedding and INSERT) or an event insert its lookup has returned
\* and released the gate.
C27_GateNotHeldDuringStorage ==
    \A p \in Procs :
        pc[p] \in {"init", "read", "check", "insert", "store", "checkpoint"} =>
            /\ gate.holder # p
            /\ gate.st[p] = "out"

\* task 1 is about to insert an entity while the request of task 2 is
\* in flight
C27_Witness ==
    /\ pc[1] = "insert"
    /\ gate.holder = 2
    /\ gate.st[2] = "inflight"

\* the first mbid a valid reference of the key carries in batch order, None
\* when none carries one
RECURSIVE FirstMbid(_, _, _)
FirstMbid(kind, batch, key) ==
    IF batch = <<>> THEN None
    ELSE LET r == RefOf(kind, Head(batch))
         IN  IF r.valid /\ r.key = key /\ r.mbid # None
             THEN r.mbid
             ELSE FirstMbid(kind, Tail(batch), key)

\* the step is a lookup of task p: fetch_*_info is called and returns
LookupReturns(p) ==
    /\ pc[p] = "lookup"
    /\ loc[p].idx <= Len(loc[p].new)
    /\ hist'[p].last.op \in {"lookup", "lookup_error"}

\* C28: the lookup of a key is made with the first mbid a reference of the
\* key carried in the batch, and by name (the artist name, with the album
\* or track name for albums and tracks) only when none carried one; a
\* lookup with no mbid and without the names it needs sends no request and
\* returns nothing, and the resolver goes on with its next key.
C28_LookupKeyChoice ==
    [][\A p \in Procs :
          LookupReturns(p) =>
              LET l == loc[p]
                  e == l.new[l.idx]
                  artist == LookupArtist(l.kind, e)
                  name == LookupName(l.kind, e)
                  nameless == artist = <<>> \/ (l.kind # "artist" /\ name = <<>>)
              IN  /\ e.mbid = FirstMbid(l.kind, l.all_tracks, e.key)
                  /\ (e.mbid = None /\ nameless) =>
                        /\ hist'[p].lookups = hist[p].lookups
                        /\ hist'[p].by = hist[p].by
                        /\ pc'[p] = "lookup"
                        /\ loc'[p].idx = l.idx + 1
                        /\ db' = db
                  /\ ~(e.mbid = None /\ nameless) =>
                        /\ hist'[p].lookups = Append(hist[p].lookups, LookupKey(l.kind, e))
                        /\ hist'[p].by = Append(hist[p].by, e.mbid)
                        /\ (e.mbid # None /\ hist'[p].last.op = "lookup") =>
                              (pc'[p] = "insert")
                              = Answer(l.kind, <<>>, <<>>, e.mbid).ok
                        /\ (e.mbid = None /\ hist'[p].last.op = "lookup") =>
                              (pc'[p] = "insert")
                              = Answer(l.kind, artist, name, None).ok]_vars

\* the track resolver has been through two keys: one looked up by its mbid,
\* one with a blank artist name and no mbid, for which no request went out
C28_Witness ==
    /\ pc[1] = "lookup"
    /\ loc[1].kind = "track"
    /\ Len(loc[1].new) = 2
    /\ loc[1].idx = 3
    /\ \E i \in 1..2 : loc[1].new[i].key[1] = <<>> /\ loc[1].new[i].mbid = None
    /\ \E i \in 1..2 : loc[1].new[i].mbid = "m2"
    /\ CountKind(hist[1].lookups, "track") = 1
    /\ hist[1].by[Len(hist[1].by)] = "m2"
    /\ \E i \in 1..Len(hist[1].by) : hist[1].by[i] = None

\* C29: the stored checkpoint never decreases, whatever cycles run, fail
\* or overlap.
C29_CheckpointMonotonic ==
    [][ckpt' >= ckpt]_vars

\* C30: a reference for which a cycle fetched metadata and inserted a row
\* is found by the existence check from then on: no later lookup is made
\* for it, also when the answer carried another name than the event.
C30_StoredEntityIsFound ==
    [][\A p \in Procs :
          (LookupReturns(p) /\ hist'[p].lookups # hist[p].lookups) =>
              LookupKey(loc[p].kind, loc[p].new[loc[p].idx]) \notin hist[p].resolved]_vars

\* the event store holds s with a track id
StoredLinked(tbl, s) ==
    \E j \in 1..Len(tbl) :
        /\ tbl[j].listened_at = s.uts
        /\ tbl[j].artist_name = s.artist
        /\ tbl[j].track_name = s.name
        /\ tbl[j].track_id # NULL

\* C31: an event whose track the resolver fetched metadata for and inserted,
\* or found stored, is in the event store with a track id once the insert
\* loop has been through it.
C31_EventLinkedToTrack ==
    [][\A p \in Procs :
          (pc[p] = "store" /\ hist'[p].last = Op("store", "event")) =>
              LET s == loc[p].all_tracks[loc[p].idx]
              IN  (/\ ~Skipped(s)
                   /\ \/ <<"track", normalize(s.artist), normalize(s.name)>>
                             \in hist[p].resolved
                      \/ track_exists(s.artist, s.name))
                  => StoredLinked(scrobbles', s)]_vars

\* C32: at most one request is awaiting its response: the caller that is
\* between the admission check and the return of session.get holds the
\* lock, so no two callers are there together.
C32_OneRequestInFlight ==
    /\ \A c \in Callers :
          gate.st[c] \in {"sleeping", "inflight"} => gate.holder = c
    /\ \A c, d \in Callers :
          (gate.st[c] = "inflight" /\ gate.st[d] = "inflight") => c = d

\* a request has been awaiting its response for a whole interval while two
\* other callers are queued on the lock
C32_Witness ==
    /\ \E c \in Callers :
          /\ gate.st[c] = "inflight"
          /\ gate.mono >= gate.last + RATE_LIMIT_MS
    /\ Len(gate.waiters) = 2

\* C33: a request that raises inside the gate releases the lock and leaves
\* the last-request time at the start of that request; a caller sleeps no
\* longer than RATE_LIMIT_MS, and after a failure every caller queued on the
\* lock or sleeping in the gate still gets its request out.
C33_NoDeadlockOnFailure ==
    /\ [][gate'.failed # gate.failed =>
             /\ gate'.holder = 0
             /\ gate'.last = gate.starts[Len(gate.starts)]
             /\ gate'.last = gate.last]_vars
    /\ [](\A c \in Callers :
             gate.st[c] = "sleeping" =>
                 gate.wake[c] <= gate.mono + RATE_LIMIT_MS)
    /\ \A c \in Callers :
          (gate.failed # {} /\ gate.st[c] \in {"waiting", "sleeping"})
              ~> gate.st[c] = "inflight"

\* a request raised while a caller was queued on the lock, and the next
\* request went out one interval after the start of the failed one
C33_Witness ==
    \E i \in gate.failed :
        /\ Len(gate.starts) > i
        /\ Len(gate.arrived) > i
        /\ gate.starts[i + 1] = gate.starts[i] + RATE_LIMIT_MS

\* C34: init_sync_table leaves the value of an existing checkpoint row as
\* it is and creates the row with value 0 when there is none; the row, once
\* there, stays, so get_last_synced_scrobble, which runs after it, reads an
\* integer and never finds the row missing.
C34_InitPreservesCheckpoint ==
    /\ [][\A p \in Procs :
             (pc[p] = "init" /\ pc'[p] = "read") =>
                 /\ ckpt # NoRow => ckpt' = ckpt
                 /\ ckpt = NoRow => ckpt' = 0]_vars
    /\ [][ckpt # NoRow => ckpt' # NoRow]_vars
    /\ [](\A p \in Procs : pc[p] = "read" => ckpt \in Nat)

\* init_sync_table has run in a cycle that found a checkpoint above 0 and
\* events stored, and the checkpoint read next is that one
C34_Witness ==
    /\ pc[1] = "read"
    /\ hist[1].last = Op("init", "ckpt")
    /\ ckpt > 0
    /\ scrobbles # <<>>

====
